---- MODULE Spec2Model ----
(***************************************************************************)
(* Outbound caller (src/telephony.py): the entrypoint coroutine, the       *)
(* session-start task it spawns, and the OutboundCaller function tools     *)
(* the started session dispatches, as asyncio tasks interleaving at their  *)
(* await points.  The telephony gateway (ctx.api), the job context and     *)
(* the conversation engine (AgentSession) are the environment.             *)
(***************************************************************************)
EXTENDS Integers, Sequences, FiniteSets, TLC

VARIABLES
    dial_info,      \* json.loads(ctx.job.metadata), kept as agent.dial_info
    epc,            \* position of the entrypoint coroutine
    session,        \* the session_started task / AgentSession
    participant,    \* agent.participant: None or the participant's identity
    room,           \* identities of the remote participants in ctx.room
    tools,          \* the function-tool invocations, one asyncio task each
    speech,         \* utterances handed to the session, in playout order
    played,         \* how many utterances of speech have finished playing
    gateway,        \* the requests sent through ctx.api, in order
    shutdowns       \* how many times ctx.shutdown() was called

vars == <<dial_info, epc, session, participant, room, tools, speech, played,
          gateway, shutdowns>>

\* Bounds of the model.
MaxCalls == 2           \* tool invocations dispatched during one job

None == "None"
Calls == 1 .. MaxCalls

CalleeNumber == "+15551230000"
TransferTarget == "+15559998888"

\* The job metadata the dispatcher may pass: phone_number present or
\* missing, transfer_to a number, empty, or missing.
Metadatas ==
    { [phone_number |-> CalleeNumber, transfer_to |-> TransferTarget],
      [phone_number |-> CalleeNumber, transfer_to |-> ""],
      [phone_number |-> CalleeNumber],
      [transfer_to |-> TransferTarget] }

ToolNames == {"transfer_call", "end_call", "look_up_availability",
              "confirm_appointment", "detected_answering_machine"}

\* A tool task: the tool's name, its position, the utterance it awaits (0:
\* none), the gateway's answer to its transfer request, and its outcome
\* (the returned value or the exception raised).
IdleTool ==
    [name |-> "none", pc |-> "idle", wait |-> 0, acked |-> "none",
     result |-> "none"]

\* f"tel:{transfer_to}"
TelUri(transfer_to) == "tel:" \o transfer_to

\* Falsy with the empty target taken for a number.
FalsyNever(transfer_to) == FALSE

\* `not transfer_to`
Falsy(transfer_to) == transfer_to = ""

\* ctx.session.current_speech: the first utterance of sp that has not
\* finished playing, 0 for None.
current_speech(sp) == IF played < Len(sp) THEN played + 1 ELSE 0

\* A SpeechHandle's playout is over.
PlayoutDone(id) == id <= played

Request(req, by, tool, identity, to) ==
    [req |-> req, by |-> by, tool |-> tool, identity |-> identity, to |-> to]

Utterance(kind, by) == [kind |-> kind, by |-> by]

Init ==
    /\ dial_info \in Metadatas
    /\ epc = "start"
    /\ session = "none"
    /\ participant = None
    /\ room = {}
    /\ tools = [t \in Calls |-> IdleTool]
    /\ speech = <<>>
    /\ played = 0
    /\ gateway = <<>>
    /\ shutdowns = 0

----------------------------------------------------------------------------
(* entrypoint *)

\* await ctx.connect()
Connect ==
    /\ epc = "start"
    /\ epc' = "connected"
    /\ UNCHANGED <<dial_info, session, participant, room, tools, speech,
                   played, gateway, shutdowns>>

\* ParseMetadata with the missing key read as None (dial_info.get).
ParseMetadataLenient ==
    /\ epc = "connected"
    /\ epc' = "parsed"
    /\ UNCHANGED <<dial_info, session, participant, room, tools, speech,
                   played, gateway, shutdowns>>

\* dial_info = json.loads(...); phone_number = dial_info["phone_number"]
\* raises KeyError when the key is missing, which ends the job.
ParseMetadata ==
    /\ epc = "connected"
    /\ epc' = IF "phone_number" \in DOMAIN dial_info THEN "parsed" ELSE "raised"
    /\ UNCHANGED <<dial_info, session, participant, room, tools, speech,
                   played, gateway, shutdowns>>

\* agent = OutboundCaller(...); session = AgentSession(...)
CreateAgent ==
    /\ epc = "parsed"
    /\ epc' = "ready"
    /\ participant' = None
    /\ UNCHANGED <<dial_info, session, room, tools, speech, played, gateway,
                   shutdowns>>

\* session_started = asyncio.create_task(session.start(...))
StartSession ==
    /\ epc = "ready"
    /\ session = "none"
    /\ session' = "scheduled"
    /\ epc' = "session_spawned"
    /\ UNCHANGED <<dial_info, participant, room, tools, speech, played,
                   gateway, shutdowns>>

\* DialRequest with the dial placed ahead of the session start.
DialRequestBeforeSession ==
    /\ epc = "ready"
    /\ gateway' = Append(gateway,
                         Request("dial", 0, "entrypoint",
                                 dial_info.phone_number, dial_info.phone_number))
    /\ epc' = "dialing"
    /\ UNCHANGED <<dial_info, session, participant, room, tools, speech,
                   played, shutdowns>>

\* await ctx.api.sip.create_sip_participant(...): the request goes out and
\* the coroutine suspends until the gateway answers.
DialRequest ==
    /\ epc = "session_spawned"
    /\ gateway' = Append(gateway,
                         Request("dial", 0, "entrypoint",
                                 dial_info.phone_number, dial_info.phone_number))
    /\ epc' = "dialing"
    /\ UNCHANGED <<dial_info, session, participant, room, tools, speech,
                   played, shutdowns>>

\* wait_until_answered=True: the call returns once the callee has answered,
\* the SIP participant being in the room under participant_identity.
DialAnswered ==
    /\ epc = "dialing"
    /\ room' = room \cup {dial_info.phone_number}
    /\ epc' = "await_session"
    /\ UNCHANGED <<dial_info, session, participant, tools, speech, played,
                   gateway, shutdowns>>

\* The gateway fails the call: api.TwirpError, caught at `except`.
DialTwirpError ==
    /\ epc = "dialing"
    /\ epc' = "except"
    /\ UNCHANGED <<dial_info, session, participant, room, tools, speech,
                   played, gateway, shutdowns>>

\* The request fails with an exception that is not a TwirpError (the
\* transport): `except api.TwirpError` does not catch it.
DialOtherError ==
    /\ epc = "dialing"
    /\ epc' = "raised"
    /\ UNCHANGED <<dial_info, session, participant, room, tools, speech,
                   played, gateway, shutdowns>>

\* AwaitSession without the wait for the session_started task.
AwaitSessionSkipped ==
    /\ epc = "await_session"
    /\ epc' = "await_participant"
    /\ UNCHANGED <<dial_info, session, participant, room, tools, speech,
                   played, gateway, shutdowns>>

\* await session_started
AwaitSession ==
    /\ epc = "await_session"
    /\ session \in {"started", "closed"}
    /\ epc' = "await_participant"
    /\ UNCHANGED <<dial_info, session, participant, room, tools, speech,
                   played, gateway, shutdowns>>

\* participant = await ctx.wait_for_participant(identity=participant_identity)
\* agent.set_participant(participant)
SetParticipant ==
    /\ epc = "await_participant"
    /\ dial_info.phone_number \in room
    /\ participant' = dial_info.phone_number
    /\ epc' = "done"
    /\ UNCHANGED <<dial_info, session, room, tools, speech, played, gateway,
                   shutdowns>>

\* except api.TwirpError: logger.error(...); ctx.shutdown()
DialFailedHandler ==
    /\ epc = "except"
    /\ shutdowns' = shutdowns + 1
    /\ epc' = "failed"
    /\ UNCHANGED <<dial_info, session, participant, room, tools, speech,
                   played, gateway>>

----------------------------------------------------------------------------
(* the session and the engine *)

\* The entrypoint coroutine is suspended at an await or has ended, so the
\* event loop may run another task.
EntrypointYielded ==
    epc \in {"dialing", "await_session", "await_participant", "done",
             "failed", "raised"}

\* session.start(...) runs to completion: the agent is active.
SessionStarted ==
    /\ session = "scheduled"
    /\ EntrypointYielded
    /\ session' = "started"
    /\ UNCHANGED <<dial_info, epc, participant, room, tools, speech, played,
                   gateway, shutdowns>>

\* A teardown was asked for, or the callee was transferred away.
Terminated ==
    \/ shutdowns > 0
    \/ \E i \in 1 .. Len(gateway) : gateway[i].req = "delete_room"
    \/ \E t \in Calls : tools[t].acked = "ok"

\* The room is gone or the job is shut down: the session closes and the
\* remote participants are disconnected.
SessionClosed ==
    /\ session = "started"
    /\ Terminated
    /\ session' = "closed"
    /\ room' = {}
    /\ UNCHANGED <<dial_info, epc, participant, tools, speech, played,
                   gateway, shutdowns>>

\* The utterance now playing finishes.
PlayoutFinished ==
    /\ played < Len(speech)
    /\ played' = played + 1
    /\ UNCHANGED <<dial_info, epc, session, participant, room, tools, speech,
                   gateway, shutdowns>>

\* The engine's turn may call function tool t of the agent: the session is
\* running and the tool calls before it have been dispatched.
Dispatchable(t) ==
    /\ session = "started"
    /\ tools[t].pc = "idle"
    /\ \A u \in Calls : u < t => tools[u].pc # "idle"

\* The turn that calls end_call may carry words as well (the goodbye),
\* which the session starts to speak: the speech end_call finds in
\* current_speech, besides the utterances of other tools.
Spoken(words) ==
    IF words THEN Append(speech, Utterance("engine", 0)) ELSE speech

----------------------------------------------------------------------------
(* OutboundCaller: each tool runs as a task of its own, from its dispatch  *)
(* to its first await in one step, then from await to await.               *)

At(t, name, pc) == tools[t].name = name /\ tools[t].pc = pc

Running(name, pc, wait) ==
    [IdleTool EXCEPT !.name = name, !.pc = pc, !.wait = wait]

Returned(name, value) ==
    [IdleTool EXCEPT !.name = name, !.pc = "returned", !.result = value]

Raised(name, exception) ==
    [IdleTool EXCEPT !.name = name, !.pc = "raised", !.result = exception]

\* hangup() taking a lock that the tools in flight hold.
hangupLocked(t, name) ==
    /\ \A u \in Calls : u # t => tools[u].pc \in {"idle", "returned", "raised"}
    /\ gateway' = Append(gateway, Request("delete_room", t, name, "", ""))
    /\ tools' = [tools EXCEPT ![t] =
                    [@ EXCEPT !.name = name, !.pc = "hangup_wait", !.wait = 0]]

\* hangup(): await job_ctx.api.room.delete_room(...)
hangup(t, name) ==
    /\ gateway' = Append(gateway, Request("delete_room", t, name, "", ""))
    /\ tools' = [tools EXCEPT ![t] =
                    [@ EXCEPT !.name = name, !.pc = "hangup_wait", !.wait = 0]]

\* delete_room is acknowledged: hangup returns, and so does the tool.
HangupReturns(t) ==
    /\ tools[t].pc = "hangup_wait"
    /\ tools' = [tools EXCEPT ![t] = [@ EXCEPT !.pc = "returned", !.result = None]]
    /\ UNCHANGED <<dial_info, epc, session, participant, room, speech, played,
                   gateway, shutdowns>>

\* transfer_call up to its first await: the lookup of transfer_to (KeyError
\* when the key is missing), the `not transfer_to` return, generate_reply.
TransferCallStart(t) ==
    /\ Dispatchable(t)
    /\ IF "transfer_to" \notin DOMAIN dial_info
         THEN /\ tools' = [tools EXCEPT ![t] = Raised("transfer_call", "KeyError")]
              /\ UNCHANGED speech
         ELSE IF Falsy(dial_info.transfer_to)
         THEN /\ tools' = [tools EXCEPT ![t] =
                              Returned("transfer_call", "cannot transfer call")]
              /\ UNCHANGED speech
         ELSE /\ speech' = Append(speech, Utterance("notice", t))
              /\ tools' = [tools EXCEPT ![t] =
                              Running("transfer_call", "notice_wait",
                                      Len(speech) + 1)]
    /\ UNCHANGED <<dial_info, epc, session, participant, room, played, gateway,
                   shutdowns>>

\* except Exception: generate_reply("there was an error ...")
Apologise(t) ==
    /\ speech' = Append(speech, Utterance("apology", t))
    /\ tools' = [tools EXCEPT ![t] =
                    [@ EXCEPT !.pc = "apology_wait", !.wait = Len(speech) + 1]]

\* TransferRequest without the wait for the notice's playout.
TransferRequestUnawaited(t) ==
    /\ At(t, "transfer_call", "notice_wait")
    /\ IF participant = None
         THEN /\ Apologise(t)
              /\ UNCHANGED gateway
         ELSE /\ gateway' = Append(gateway,
                                   Request("transfer", t, "transfer_call", participant,
                                           TelUri(dial_info.transfer_to)))
              /\ tools' = [tools EXCEPT ![t] =
                              Running("transfer_call", "transfer_wait", 0)]
              /\ UNCHANGED speech
    /\ UNCHANGED <<dial_info, epc, session, participant, room, played,
                   shutdowns>>

\* The notice has played; inside `try`, the request is built from
\* self.participant.identity (AttributeError on None, caught by `except
\* Exception`) and sent.
TransferRequest(t) ==
    /\ At(t, "transfer_call", "notice_wait")
    /\ PlayoutDone(tools[t].wait)
    /\ IF participant = None
         THEN /\ Apologise(t)
              /\ UNCHANGED gateway
         ELSE /\ gateway' = Append(gateway,
                                   Request("transfer", t, "transfer_call", participant,
                                           TelUri(dial_info.transfer_to)))
              /\ tools' = [tools EXCEPT ![t] =
                              Running("transfer_call", "transfer_wait", 0)]
              /\ UNCHANGED speech
    /\ UNCHANGED <<dial_info, epc, session, participant, room, played,
                   shutdowns>>

\* TransferConfirmed with the confirmation handled as the error is.
TransferConfirmedAsError(t) ==
    /\ At(t, "transfer_call", "transfer_wait")
    /\ speech' = Append(speech, Utterance("apology", t))
    /\ tools' = [tools EXCEPT ![t] =
                    [@ EXCEPT !.pc = "apology_wait", !.wait = Len(speech) + 1,
                              !.acked = "ok"]]
    /\ UNCHANGED <<dial_info, epc, session, participant, room, played, gateway,
                   shutdowns>>

\* The gateway confirms the transfer: the callee leaves the room, the tool
\* logs and returns.
TransferConfirmed(t) ==
    /\ At(t, "transfer_call", "transfer_wait")
    /\ tools' = [tools EXCEPT ![t] =
                    [Returned("transfer_call", None) EXCEPT !.acked = "ok"]]
    /\ room' = room \ {gateway[CHOOSE i \in 1 .. Len(gateway) :
                                 gateway[i].req = "transfer" /\ gateway[i].by = t].identity}
    /\ UNCHANGED <<dial_info, epc, session, participant, speech, played,
                   gateway, shutdowns>>

\* TransferRejected with the request tried again.
TransferRejectedRetried(t) ==
    /\ At(t, "transfer_call", "transfer_wait")
    /\ tools' = [tools EXCEPT ![t] =
                    [@ EXCEPT !.pc = "notice_wait", !.wait = 0, !.acked = "error"]]
    /\ UNCHANGED <<dial_info, epc, session, participant, room, speech, played,
                   gateway, shutdowns>>

\* The gateway rejects the transfer: the exception is caught and the
\* handler runs up to its first await.
TransferRejected(t) ==
    /\ At(t, "transfer_call", "transfer_wait")
    /\ speech' = Append(speech, Utterance("apology", t))
    /\ tools' = [tools EXCEPT ![t] =
                    [@ EXCEPT !.pc = "apology_wait", !.wait = Len(speech) + 1,
                              !.acked = "error"]]
    /\ UNCHANGED <<dial_info, epc, session, participant, room, played, gateway,
                   shutdowns>>

\* TransferHangup without the wait for the apology's playout.
TransferHangupUnawaited(t) ==
    /\ At(t, "transfer_call", "apology_wait")
    /\ hangup(t, "transfer_call")
    /\ UNCHANGED <<dial_info, epc, session, participant, room, speech, played,
                   shutdowns>>

\* The apology has played: await self.hangup()
TransferHangup(t) ==
    /\ At(t, "transfer_call", "apology_wait")
    /\ PlayoutDone(tools[t].wait)
    /\ hangup(t, "transfer_call")
    /\ UNCHANGED <<dial_info, epc, session, participant, room, speech, played,
                   shutdowns>>

\* end_call up to its first await: the log line reads
\* self.participant.identity; current_speech is waited for when there is
\* one, else hangup is called at once.
EndCallStart(t, words) ==
    /\ Dispatchable(t)
    /\ speech' = Spoken(words)
    /\ IF participant = None
         THEN /\ tools' = [tools EXCEPT ![t] = Raised("end_call", "AttributeError")]
              /\ UNCHANGED gateway
         ELSE IF current_speech(speech') # 0
         THEN /\ tools' = [tools EXCEPT ![t] =
                              Running("end_call", "playout_wait",
                                      current_speech(speech'))]
              /\ UNCHANGED gateway
         ELSE hangup(t, "end_call")
    /\ UNCHANGED <<dial_info, epc, session, participant, room, played,
                   shutdowns>>

\* EndCallHangup without the wait for the current utterance's playout.
EndCallHangupUnawaited(t) ==
    /\ At(t, "end_call", "playout_wait")
    /\ hangup(t, "end_call")
    /\ UNCHANGED <<dial_info, epc, session, participant, room, speech, played,
                   shutdowns>>

\* EndCallHangup with the call to hangup() left out.
EndCallHangupSkipped(t) ==
    /\ At(t, "end_call", "playout_wait")
    /\ PlayoutDone(tools[t].wait)
    /\ tools' = [tools EXCEPT ![t] = Returned("end_call", None)]
    /\ UNCHANGED <<dial_info, epc, session, participant, room, speech, played,
                   gateway, shutdowns>>

\* current_speech.wait_for_playout() is over: await self.hangup()
EndCallHangup(t) ==
    /\ At(t, "end_call", "playout_wait")
    /\ PlayoutDone(tools[t].wait)
    /\ hangup(t, "end_call")
    /\ UNCHANGED <<dial_info, epc, session, participant, room, speech, played,
                   shutdowns>>

\* look_up_availability up to asyncio.sleep(3)
LookUpStart(t) ==
    /\ Dispatchable(t)
    /\ tools' = [tools EXCEPT ![t] =
                    IF participant = None
                    THEN Raised("look_up_availability", "AttributeError")
                    ELSE Running("look_up_availability", "sleep", 0)]
    /\ UNCHANGED <<dial_info, epc, session, participant, room, speech, played,
                   gateway, shutdowns>>

\* return {"available_times": ["1pm", "2pm", "3pm"]}
LookUpReturns(t) ==
    /\ At(t, "look_up_availability", "sleep")
    /\ tools' = [tools EXCEPT ![t] =
                    Returned("look_up_availability", "available_times")]
    /\ UNCHANGED <<dial_info, epc, session, participant, room, speech, played,
                   gateway, shutdowns>>

\* ConfirmAppointment answering a repeated confirmation differently.
ConfirmAppointmentOnce(t) ==
    /\ Dispatchable(t)
    /\ tools' = [tools EXCEPT ![t] =
                    IF participant = None
                    THEN Raised("confirm_appointment", "AttributeError")
                    ELSE IF \E u \in Calls :
                                tools[u].result = "reservation confirmed"
                    THEN Returned("confirm_appointment", "already confirmed")
                    ELSE Returned("confirm_appointment", "reservation confirmed")]
    /\ UNCHANGED <<dial_info, epc, session, participant, room, speech, played,
                   gateway, shutdowns>>

\* confirm_appointment has no await
ConfirmAppointment(t) ==
    /\ Dispatchable(t)
    /\ tools' = [tools EXCEPT ![t] =
                    IF participant = None
                    THEN Raised("confirm_appointment", "AttributeError")
                    ELSE Returned("confirm_appointment", "reservation confirmed")]
    /\ UNCHANGED <<dial_info, epc, session, participant, room, speech, played,
                   gateway, shutdowns>>

\* DetectedAnsweringMachine with a closing remark spoken and left to play
\* where hangup() is called.
DetectedAnsweringMachineRemark(t) ==
    /\ Dispatchable(t)
    /\ IF participant = None
         THEN /\ tools' = [tools EXCEPT ![t] =
                              Raised("detected_answering_machine", "AttributeError")]
              /\ UNCHANGED speech
         ELSE /\ speech' = Append(speech, Utterance("notice", t))
              /\ tools' = [tools EXCEPT ![t] =
                              Running("detected_answering_machine", "playout_wait",
                                      Len(speech) + 1)]
    /\ UNCHANGED <<dial_info, epc, session, participant, room, played, gateway,
                   shutdowns>>

\* detected_answering_machine: the log line, then await self.hangup()
DetectedAnsweringMachine(t) ==
    /\ Dispatchable(t)
    /\ IF participant = None
         THEN /\ tools' = [tools EXCEPT ![t] =
                              Raised("detected_answering_machine", "AttributeError")]
              /\ UNCHANGED gateway
         ELSE hangup(t, "detected_answering_machine")
    /\ UNCHANGED <<dial_info, epc, session, participant, room, speech, played,
                   shutdowns>>

----------------------------------------------------------------------------

\* A step of the code of tool task t after its first await.
ToolStep(t) ==
    \/ TransferRequest(t)
    \/ TransferHangup(t)
    \/ EndCallHangup(t)
    \/ LookUpReturns(t)

\* A step of the entrypoint's own code.
EntrypointStep ==
    \/ Connect
    \/ ParseMetadata
    \/ CreateAgent
    \/ StartSession
    \/ DialRequest
    \/ AwaitSession
    \/ SetParticipant
    \/ DialFailedHandler

Next ==
    \/ Connect
    \/ ParseMetadata
    \/ CreateAgent
    \/ StartSession
    \/ DialRequest
    \/ DialAnswered
    \/ DialTwirpError
    \/ DialOtherError
    \/ AwaitSession
    \/ SetParticipant
    \/ DialFailedHandler
    \/ SessionStarted
    \/ SessionClosed
    \/ PlayoutFinished
    \/ \E t \in Calls : TransferCallStart(t)
    \/ \E t \in Calls : TransferRequest(t)
    \/ \E t \in Calls : TransferConfirmed(t)
    \/ \E t \in Calls : TransferRejected(t)
    \/ \E t \in Calls : TransferHangup(t)
    \/ \E t \in Calls, words \in BOOLEAN : EndCallStart(t, words)
    \/ \E t \in Calls : EndCallHangup(t)
    \/ \E t \in Calls : LookUpStart(t)
    \/ \E t \in Calls : LookUpReturns(t)
    \/ \E t \in Calls : ConfirmAppointment(t)
    \/ \E t \in Calls : DetectedAnsweringMachine(t)
    \/ \E t \in Calls : HangupReturns(t)

Spec == Init /\ [][Next]_vars

\* The event loop runs every task that is ready, an utterance that plays
\* comes to its end, and the gateway answers a transfer or delete_room
\* request.  Nothing makes the gateway answer the dial request, the engine
\* dispatch a tool, or the room close.
FairSpec ==
    /\ Spec
    /\ WF_vars(EntrypointStep)
    /\ WF_vars(SessionStarted)
    /\ WF_vars(PlayoutFinished)
    /\ \A t \in Calls : WF_vars(ToolStep(t))
    /\ \A t \in Calls : WF_vars(TransferConfirmed(t) \/ TransferRejected(t))
    /\ \A t \in Calls : WF_vars(HangupReturns(t))

TypeOK ==
    /\ epc \in {"start", "connected", "parsed", "ready", "session_spawned",
                "dialing", "await_session", "await_participant", "done",
                "except", "failed", "raised"}
    /\ session \in {"none", "scheduled", "started", "closed"}
    /\ participant \in {None, CalleeNumber}
    /\ played \in 0 .. Len(speech)
    /\ \A t \in Calls : tools[t].name \in ToolNames \cup {"none"}

----------------------------------------------------------------------------
(* What the gateway and the callee have seen so far *)

Requests(req) == {i \in 1 .. Len(gateway) : gateway[i].req = req}

\* The delete_room requests tool task t has sent.
DeletedBy(t) == {i \in Requests("delete_room") : gateway[i].by = t}

\* Teardown invocations: hangup() calls and ctx.shutdown() calls.
Teardowns == Cardinality(Requests("delete_room")) + shutdowns

\* The utterances of sp that tools asked for (notices and apologies).
ToolUtterances(sp) == SelectSeq(sp, LAMBDA u : u.kind # "engine")

\* Utterance kind of task t has finished playing.
HasPlayed(kind, t) ==
    \E j \in 1 .. played : speech[j].kind = kind /\ speech[j].by = t

\* The terminal reasons the call has taken, each from the path that sets it.
Reasons ==
    {r \in {"UserEnded", "Transferred", "VoicemailDetected", "DialFailed"} :
        \/ r = "UserEnded"
           /\ \E i \in Requests("delete_room") : gateway[i].tool = "end_call"
        \/ r = "VoicemailDetected"
           /\ \E i \in Requests("delete_room") :
                  gateway[i].tool = "detected_answering_machine"
        \/ r = "Transferred" /\ \E t \in Calls : tools[t].acked = "ok"
        \/ r = "DialFailed"
           /\ \/ shutdowns > 0
              \/ \E i \in Requests("delete_room") : gateway[i].tool = "transfer_call"}

----------------------------------------------------------------------------
(* Claims *)

\* C1: whatever termination triggers fire on one call, and in whatever
\* order, the session is torn down once: the delete_room requests the
\* gateway sees and the ctx.shutdown() calls number at most one.
C1_TeardownOnce == Teardowns <= 1

\* C2: the dial request is never sent in a state where the session start
\* has not been issued: once the gateway has a dial request, the
\* session_started task exists.
C2_SessionStartBeforeDial ==
    Requests("dial") # {} => session # "none"

C2_Witness ==
    /\ epc = "dialing"
    /\ Requests("dial") # {}
    /\ session = "scheduled"

\* C3: while no participant is bound, every tool that has been called and
\* has come to read the participant was refused with a "not yet connected"
\* result, and none has spoken or sent a request to the gateway.
C3_BindingBeforeToolUse ==
    participant = None =>
        /\ \A t \in Calls :
              tools[t].pc # "idle" =>
                  tools[t].result \in {"not yet connected", "cannot transfer call",
                                       "KeyError"}
        /\ ToolUtterances(speech) = <<>>
        /\ Requests("transfer") \cup Requests("delete_room") = {}

\* The entrypoint coroutine has ended after sending the dial request.
EntrypointEnded ==
    /\ epc \in {"done", "failed", "raised"}
    /\ Requests("dial") # {}

\* The dial request has failed, with a TwirpError or with another
\* exception, and the entrypoint has ended.
DialFailedEnded ==
    /\ epc \in {"failed", "raised"}
    /\ Requests("dial") # {}

\* C4: an entrypoint run that has dialled ends with exactly one of the two
\* outcomes: the participant is bound, or the dial failure is recorded by
\* the handler; never both, never neither.
C4_BindOrDialFailed ==
    EntrypointEnded => ((participant # None) # (shutdowns > 0))

\* C5: when the dial has failed, the call is Terminal(DialFailed), the
\* session has been torn down exactly once, and no participant is bound.
C5_DialFailureTearsDownOnce ==
    DialFailedEnded =>
        /\ Reasons = {"DialFailed"}
        /\ Teardowns = 1
        /\ participant = None

\* A step in which the engine calls a tool.
ToolCalled == \E t \in Calls : tools[t].pc = "idle" /\ tools'[t].pc # "idle"

\* C6: the call takes at most one terminal reason, and a tool called once
\* the reason is set sends no gateway request and causes no speech.
C6_TerminalReasonFinal ==
    /\ [](Cardinality(Reasons) <= 1)
    /\ [][(Reasons # {} /\ ToolCalled) =>
              /\ gateway' = gateway
              /\ ToolUtterances(speech') = ToolUtterances(speech)]_vars

\* Tool task t has come to the end of a path that terminates the call:
\* end_call, detected_answering_machine, or transfer_call after its transfer
\* request was confirmed or rejected.
TerminationPathEnded(t) ==
    /\ tools[t].pc = "returned"
    /\ \/ tools[t].name \in {"end_call", "detected_answering_machine"}
       \/ tools[t].acked \in {"ok", "error"}

C8_EmptyTargetDeclined ==
    [][\A t \in Calls :
          (/\ "transfer_to" \in DOMAIN dial_info
           /\ dial_info.transfer_to = ""
           /\ tools[t].pc = "idle"
           /\ tools'[t].name = "transfer_call")
          => /\ tools'[t].pc = "returned"
             /\ tools'[t].result = "cannot transfer call"
             /\ gateway' = gateway
             /\ ToolUtterances(speech') = ToolUtterances(speech)
             /\ Reasons' = Reasons
             /\ UNCHANGED <<dial_info, epc, session, participant, room, played,
                            shutdowns>>]_vars

C8_Witness ==
    /\ "transfer_to" \in DOMAIN dial_info
    /\ dial_info.transfer_to = ""
    /\ participant # None
    /\ \E t \in Calls :
          /\ tools[t].name = "transfer_call"
          /\ tools[t].result = "cannot transfer call"

\* C9: when the gateway rejects the transfer, transfer_call speaks an
\* apology, lets it play, and then calls hangup(): every delete_room that
\* transfer_call sends follows its played apology, and a rejected transfer
\* leads to the delete_room request.
C9_TransferErrorApologyThenTeardown ==
    /\ [](\A t \in Calls :
             (tools[t].name = "transfer_call" /\ DeletedBy(t) # {})
             => HasPlayed("apology", t))
    /\ [](\A t \in Calls :
             tools[t].acked = "error"
             => \E j \in 1 .. Len(speech) :
                    speech[j].kind = "apology" /\ speech[j].by = t)
    /\ \A t \in Calls : (tools[t].acked = "error") ~> (DeletedBy(t) # {})

C9_Witness ==
    \E t \in Calls :
        /\ tools[t].acked = "error"
        /\ DeletedBy(t) # {}
        /\ HasPlayed("apology", t)

\* C10: every transfer request the gateway has received was sent after the
\* sender's transfer notice had finished playing, and names the bound
\* participant's identity and the configured transfer target.
C10_NoticeBeforeTransfer ==
    \A i \in Requests("transfer") :
        /\ HasPlayed("notice", gateway[i].by)
        /\ participant # None
        /\ gateway[i].identity = participant
        /\ gateway[i].to = "tel:" \o dial_info.transfer_to
        /\ dial_info.transfer_to # ""

C10_Witness ==
    /\ Requests("transfer") # {}
    /\ \E t \in Calls : tools[t].pc = "transfer_wait"

\* A step in which the engine calls tool name as task t.
Called(t, name) == tools[t].pc = "idle" /\ tools'[t].name = name

\* C11: with the participant bound, a transfer that the gateway confirms
\* makes the call Terminal(Transferred): the confirming step takes that
\* reason and no other, transfer_call returns there, and the tool neither
\* apologises nor tears the call down (the path of DialFailed).
C11_ConfirmedTransferIsTransferred ==
    /\ [][\A t \in Calls :
             (tools[t].pc = "transfer_wait" /\ tools'[t].acked = "ok" /\ Reasons = {})
             => /\ Reasons' = {"Transferred"}
                /\ tools'[t].pc = "returned"
                /\ gateway' = gateway
                /\ speech' = speech]_vars
    /\ [](\A t \in Calls :
             tools[t].acked = "ok"
             => /\ participant # None
                /\ tools[t].pc = "returned"
                /\ "Transferred" \in Reasons
                /\ DeletedBy(t) = {}
                /\ \A j \in 1 .. Len(speech) :
                       ~(speech[j].kind = "apology" /\ speech[j].by = t))

C11_Witness ==
    /\ epc = "done"
    /\ participant = CalleeNumber
    /\ Reasons = {"Transferred"}
    /\ \E t \in Calls :
          /\ tools[t].acked = "ok"
          /\ \E i \in Requests("transfer") :
                 gateway[i].by = t /\ gateway[i].to = "tel:+15559998888"

\* C12: end_call called with a participant bound and an utterance playing
\* waits for that utterance and sends nothing meanwhile; it sends
\* delete_room only once that utterance has finished playing, and the call
\* is then Terminal(UserEnded).
C12_EndCallAfterPlayout ==
    /\ [][\A t \in Calls :
             (Called(t, "end_call") /\ participant # None
              /\ played < Len(speech'))
             => /\ tools'[t].pc = "playout_wait"
                /\ tools'[t].wait = played + 1
                /\ gateway' = gateway]_vars
    /\ [][\A t \in Calls :
             (tools[t].pc = "playout_wait" /\ DeletedBy(t)' # {})
             => /\ tools[t].wait <= played
                /\ "UserEnded" \in Reasons']_vars
    /\ [](\A t \in Calls :
             (tools[t].name = "end_call" /\ tools[t].pc = "returned")
             => DeletedBy(t) # {})

C12_Witness ==
    \E t \in Calls :
        /\ tools[t].name = "end_call"
        /\ tools[t].pc = "hangup_wait"
        /\ DeletedBy(t) # {}
        /\ played > 0
        /\ \E j \in 1 .. played : speech[j].kind = "engine"

\* C13: detected_answering_machine called with a participant bound sends
\* delete_room in the step it is called in: it speaks nothing, waits for
\* no playout, and the call is Terminal(VoicemailDetected).
C13_VoicemailTearsDownAtOnce ==
    [][\A t \in Calls :
          (Called(t, "detected_answering_machine") /\ participant # None)
          => /\ DeletedBy(t)' # {}
             /\ tools'[t].pc = "hangup_wait"
             /\ tools'[t].wait = 0
             /\ speech' = speech
             /\ "VoicemailDetected" \in Reasons']_vars

C13_Witness ==
    \E t \in Calls :
        /\ tools[t].name = "detected_answering_machine"
        /\ DeletedBy(t) # {}
        /\ played < Len(speech)

\* C14: the dial attempt has a deadline, so the entrypoint does not stay in
\* the dial step: a dial request that is out is always resolved, to an
\* answer or to a failure.
C14_DialResolves == (epc = "dialing") ~> (epc # "dialing")

\* C15: job metadata without phone_number ends the job before it dials:
\* the entrypoint gets no further than the KeyError, no dial request is
\* sent, no session is started and no tool is ever called.
C15_MissingNumberAborts ==
    "phone_number" \notin DOMAIN dial_info =>
        /\ epc \in {"start", "connected", "raised"}
        /\ Requests("dial") = {}
        /\ gateway = <<>>
        /\ session = "none"
        /\ \A t \in Calls : tools[t].pc = "idle"

C15_Witness ==
    /\ "phone_number" \notin DOMAIN dial_info
    /\ epc = "raised"

\* C16: a step of look_up_availability or confirm_appointment changes
\* nothing but the tool's own task: the participant, dial_info, the
\* terminal reason, the gateway's requests and the speech are as before;
\* and every confirm_appointment that returns, returns the same result.
C16_QueriesChangeNothing ==
    /\ [][\A t \in Calls :
             (/\ tools'[t] # tools[t]
              /\ tools'[t].name \in {"look_up_availability", "confirm_appointment"})
             => /\ Reasons' = Reasons
                /\ UNCHANGED <<dial_info, epc, session, participant, room,
                               speech, played, gateway, shutdowns>>]_vars
    /\ [](\A t \in Calls :
             (tools[t].name = "confirm_appointment" /\ tools[t].pc = "returned")
             => tools[t].result = "reservation confirmed")
    /\ [](\A t \in Calls :
             (tools[t].name = "look_up_availability" /\ tools[t].pc = "returned")
             => tools[t].result = "available_times")

C16_Witness ==
    /\ \A t \in Calls :
          /\ tools[t].name = "confirm_appointment"
          /\ tools[t].result = "reservation confirmed"
    /\ participant # None

\* Tool task t is suspended at an await of its own (speech playout, the
\* gateway's answer, the sleep).
Suspended(t) ==
    tools[t].pc \in {"notice_wait", "transfer_wait", "apology_wait",
                     "playout_wait", "sleep", "hangup_wait"}

\* C17: teardown is never held up by a tool in flight: whatever the other
\* tool tasks are doing, a tool that has come to its call of hangup() can
\* make it, detected_answering_machine can be called and tear down, the
\* dial-failure handler can shut down, and a hangup() under way can return.
C17_TeardownNotBlocked ==
    /\ \A t \in Calls :
          /\ (At(t, "end_call", "playout_wait") /\ tools[t].wait <= played)
             => ENABLED EndCallHangup(t)
          /\ (At(t, "transfer_call", "apology_wait") /\ tools[t].wait <= played)
             => ENABLED TransferHangup(t)
          /\ (session = "started" /\ tools[t].pc = "idle"
              /\ \A u \in Calls : u < t => tools[u].pc # "idle")
             => ENABLED DetectedAnsweringMachine(t)
          /\ tools[t].pc = "hangup_wait" => ENABLED HangupReturns(t)
    /\ epc = "except" => ENABLED DialFailedHandler

C17_Witness ==
    \E t, u \in Calls :
        /\ t # u
        /\ Suspended(u)
        /\ DeletedBy(u) = {}
        /\ tools[t].pc = "returned"
        /\ DeletedBy(t) # {}

\* C18: no gateway request is sent twice: the job sends at most one dial
\* request, and a transfer_call invocation at most one transfer request,
\* also when the gateway has rejected it.
C18_NoRetry ==
    /\ Cardinality(Requests("dial")) <= 1
    /\ \A t \in Calls :
          Cardinality({i \in Requests("transfer") : gateway[i].by = t}) <= 1

C18_Witness ==
    /\ Cardinality(Requests("dial")) = 1
    /\ \E t \in Calls :
          /\ tools[t].acked = "error"
          /\ tools[t].pc = "returned"
          /\ Cardinality({i \in Requests("transfer") : gateway[i].by = t}) = 1

\* C19: the participant is bound only at the join of the two completions:
\* set_participant runs when the dial has returned with an answer, the
\* session_started task is done and the callee is in the room, and never
\* on the dial-failure path.
C19_BindAtJoin ==
    /\ [][participant' # participant
          => /\ epc = "await_participant" /\ epc' = "done"
             /\ session \in {"started", "closed"}
             /\ dial_info.phone_number \in room
             /\ participant' = dial_info.phone_number
             /\ shutdowns = 0]_vars
    /\ [](participant # None
          => /\ epc = "done"
             /\ session \in {"started", "closed"}
             /\ Requests("dial") # {}
             /\ shutdowns = 0)
    /\ [](epc \in {"except", "failed", "raised"} => participant = None)

C19_Witness ==
    /\ participant = CalleeNumber
    /\ epc = "done"
    /\ session = "started"
    /\ CalleeNumber \in room

====
